---- MODULE Spec2Model ----
(***************************************************************************)
(* Model of the Spreedly slack-command bot (lib/app/botkit.js) and of      *)
(* PaymentMethods.storePaymentMethod (node-spreedly).                      *)
(*                                                                         *)
(* JavaScript values are tagged records of one shape, objects are          *)
(* sequences of properties kept in the engine's own-property order         *)
(* (integer-like keys ascending, then string keys in insertion order).     *)
(***************************************************************************)
EXTENDS Integers, Sequences, FiniteSets, TLC

VARIABLES
  \* the frame of the running responseFormatter call
  pc, caller, data, type, token, i, message, j, messageToSend, ret,
  \* the shared Bot instance and the running replyPrivateDelayed / error call
  slack, spawnSeq, cfg, trace, delivered, result,
  \* node-spreedly: requests handed to _doRequest, and the implicit globals
  inflight, paymentGatewayToken, paymentMethodToken,
  \* history: arguments of the running call, an earlier call and its outcome
  data0, watch, lastCall

frame     == <<pc, caller, data, type, token, i, message, j, messageToSend, ret, data0>>
botVars   == <<slack, spawnSeq, cfg, trace, delivered, result>>
storeVars == <<inflight, paymentGatewayToken, paymentMethodToken, lastCall>>
vars == <<pc, caller, data, type, token, i, message, j, messageToSend, ret,
          slack, spawnSeq, cfg, trace, delivered, result,
          inflight, paymentGatewayToken, paymentMethodToken,
          data0, watch, lastCall>>

\* ---------------------------------------------------------------- bounds
MaxKeys == 2
MaxPureKeys == 2
MaxBotKeys == 2
MaxCalls == 3
MaxInFlight == 2

\* ------------------------------------------------------------ JS values
JSValue(t, s, a, o) == [t |-> t, s |-> s, a |-> a, o |-> o]
Null      == JSValue("null", "", <<>>, <<>>)
Undefined == JSValue("undefined", "", <<>>, <<>>)
Str(x)    == JSValue("string", x, <<>>, <<>>)
Num(n)    == JSValue("number", ToString(n), <<>>, <<>>)
Bool(b)   == JSValue("boolean", IF b THEN "true" ELSE "false", <<>>, <<>>)
Arr(e)    == JSValue("array", "", e, <<>>)
Obj(p)    == JSValue("object", "", <<>>, p)
FnNamed(n) == JSValue("function", n, <<>>, <<>>)
Fn        == FnNamed("")
DateObj   == JSValue("date", "2020-01-01T00:00:00.000Z", <<>>, <<>>)
Prop(k, v) == [k |-> k, v |-> v]

\* ----------------------------------------------- JS own-property order
KeyIndex(k) == CASE k = "0" -> 0 [] k = "1" -> 1 [] k = "2" -> 2 [] k = "3" -> 3
                 [] OTHER -> -1
IsIndexKey(k) == KeyIndex(k) >= 0

HasKey(obj, k) == \E n \in 1..Len(obj) : obj[n].k = k
KeyPos(obj, k) == CHOOSE n \in 1..Len(obj) : obj[n].k = k
ObjGet(obj, k) == obj[KeyPos(obj, k)].v

\* position at which a new key is created in an object
InsertPos(obj, k) ==
  IF IsIndexKey(k)
    THEN 1 + Cardinality({n \in 1..Len(obj) :
                 IsIndexKey(obj[n].k) /\ KeyIndex(obj[n].k) < KeyIndex(k)})
    ELSE Len(obj) + 1

\* obj[k] = v
ObjSet(obj, k, v) ==
  IF HasKey(obj, k)
    THEN [obj EXCEPT ![KeyPos(obj, k)] = Prop(k, v)]
    ELSE LET p == InsertPos(obj, k)
         IN  SubSeq(obj, 1, p - 1) \o <<Prop(k, v)>> \o SubSeq(obj, p, Len(obj))

\* the keys of an object in for-in order
Keys(obj) == [n \in 1..Len(obj) |-> obj[n].k]

\* a sequence of properties is an object a JS engine can hold
IsJSObject(obj) ==
  /\ \A m, n \in 1..Len(obj) : m # n => obj[m].k # obj[n].k
  /\ \A m, n \in 1..Len(obj) : m < n =>
        \/ ~IsIndexKey(obj[n].k) /\ ~IsIndexKey(obj[m].k)
        \/ IsIndexKey(obj[m].k) /\ ~IsIndexKey(obj[n].k)
        \/ IsIndexKey(obj[m].k) /\ IsIndexKey(obj[n].k)
             /\ KeyIndex(obj[m].k) < KeyIndex(obj[n].k)

\* ------------------------------------------------------- val.constructor
Constructor(val) ==
  CASE val.t = "number"   -> "Number"
    [] val.t = "string"   -> "String"
    [] val.t = "boolean"  -> "Boolean"
    [] val.t = "function" -> "Function"
    [] val.t = "array"    -> "Array"
    [] val.t = "date"     -> "Date"
    [] val.t = "object"   -> IF HasKey(val.o, "constructor") THEN "own" ELSE "Object"
    [] OTHER              -> "TypeError"

\* ---------------------------------------------------------- JSON.stringify
RECURSIVE JSONStringify(_)
RECURSIVE JoinElems(_, _)
RECURSIVE JoinProps(_, _)
JoinElems(e, n) ==
  IF n > Len(e) THEN ""
  ELSE (IF n > 1 THEN "," ELSE "")
       \o (IF e[n].t \in {"undefined", "function"} THEN "null" ELSE JSONStringify(e[n]))
       \o JoinElems(e, n + 1)
JoinProps(p, first) ==
  IF p = <<>> THEN ""
  ELSE IF Head(p).v.t \in {"undefined", "function"} THEN JoinProps(Tail(p), first)
  ELSE (IF first THEN "" ELSE ",")
       \o "\"" \o Head(p).k \o "\":" \o JSONStringify(Head(p).v)
       \o JoinProps(Tail(p), FALSE)
JSONStringify(val) ==
  CASE val.t = "null"    -> "null"
    [] val.t = "number"  -> val.s
    [] val.t = "boolean" -> val.s
    [] val.t = "string"  -> "\"" \o val.s \o "\""
    [] val.t = "date"    -> "\"" \o val.s \o "\""
    [] val.t = "array"   -> "[" \o JoinElems(val.a, 1) \o "]"
    [] val.t = "object"  -> "{" \o JoinProps(val.o, TRUE) \o "}"
    [] OTHER             -> "undefined"

\* property read, truthiness, a || b, string conversion
PropOf(val, k) == IF val.t = "object" /\ HasKey(val.o, k) THEN ObjGet(val.o, k) ELSE Undefined
Truthy(val) ==
  CASE val.t \in {"null", "undefined"} -> FALSE
    [] val.t = "string"  -> val.s # ""
    [] val.t = "number"  -> val.s # "0"
    [] val.t = "boolean" -> val.s = "true"
    [] OTHER -> TRUE
OrElse(a, b) == IF Truthy(a) THEN a ELSE b
ToStr(val) ==
  CASE val.t \in {"string", "number", "boolean"} -> val.s
    [] val.t = "object" -> "[object Object]"
    [] val.t = "null"   -> "null"
    [] OTHER            -> "undefined"

\* ------------------------------------------------------------ the inputs
TopKeys == {"1", "2", "a", "b", "main"}
NestedValues == {Str("x"), Null, Arr(<<Num(1)>>), Obj(<<>>)}
TopValues ==
  { Null, Str("T1"), Num(7), Arr(<<Num(1), Num(2), Num(3)>>),
    Undefined, Fn, DateObj,
    Obj(<<>>),
    Obj(<<Prop("name", Str("x")), Prop("active", Bool(TRUE))>>),
    Obj(<<Prop("constructor", Str("c"))>>) }
  \cup { Obj(<<Prop("x", v)>>) : v \in NestedValues }
RecordsOver(keys, values, maxLen) ==
  { r \in UNION { [1..n -> [k : keys, v : values]] : n \in 0..maxLen } : IsJSObject(r) }
Records == RecordsOver(TopKeys, TopValues, MaxKeys)
Types  == {"gateway", "payment-method"}
Tokens == {"T1", "T2"}

PureKeys == {"1", "a", "main"}
PureValues == { Null, Str("T1"), Undefined, Obj(<<Prop("x", Str("x"))>>) }
PureTokens == {"T1"}
PureRecords == RecordsOver(PureKeys, PureValues, MaxPureKeys)

BotKeys == {"a", "main"}
BotValues == { Null, Str("T1"), Undefined, Obj(<<Prop("x", Str("x"))>>) }
BotRecords == RecordsOver(BotKeys, BotValues, MaxBotKeys)
Configs == { [token |-> "xoxb-1", channel_id |-> "C1"],
             [token |-> "xoxb-2", channel_id |-> "C2"] }

\* ------------------------------------------------- Bot.responseFormatter
Field(title, value) == [title |-> title, value |-> value, short |-> TRUE]

\* let message = {'main':[]}
NewMessage == <<Prop("main", <<>>)>>

\* for(let subKey in val) message[key].push(...)
SubFields(val) == [n \in 1..Len(val.o) |-> Field(val.o[n].k, val.o[n].v)]

IsPlainObject(val) == val # Null /\ Constructor(val) = "Object"

DisplayValue(val) ==
  IF val = Null \/ Constructor(val) = "Array" THEN Str(JSONStringify(val)) ELSE val

MainLabel(ty, tk) == "Spreedly response for " \o ty \o " with token " \o tk

Pretext(key, ty, tk) == IF key = "main" THEN MainLabel(ty, tk) ELSE key

Attachment(key, ty, tk, fields) ==
  [color |-> "#36a64f", pretext |-> Pretext(key, ty, tk), fields |-> fields]


\* ------------------------------------------------------ quiescent values
NoFrame ==
  /\ pc' = "idle" /\ caller' = "none"
  /\ data' = <<>> /\ data0' = <<>> /\ type' = "" /\ token' = ""
  /\ i' = 1 /\ j' = 1 /\ message' = <<>>
  /\ messageToSend' = [attachments |-> <<>>] /\ ret' = [attachments |-> <<>>]

NoClient == [id |-> 0, token |-> "", channel |-> ""]
NoConfig == [token |-> "", channel_id |-> ""]
NoResult == [thrown |-> FALSE, value |-> Undefined]
NoWatch  == [set |-> FALSE, data |-> <<>>, type |-> "", token |-> "",
             thrown |-> FALSE, ret |-> [attachments |-> <<>>]]
NoRequest == [url |-> "", method |-> "", body |-> Undefined, cb |-> Undefined]
NoCall   == [set |-> FALSE, paymentGateway |-> Undefined, paymentMethod |-> Undefined,
             additionalData |-> Undefined, cb |-> Undefined, request |-> NoRequest]

\* entry of responseFormatter(data, type, token): lines 73-74
Enter(d, ty, tk, who) ==
  /\ pc' = "loop1"
  /\ caller' = who
  /\ data' = d /\ data0' = d /\ type' = ty /\ token' = tk
  /\ i' = 1 /\ j' = 1
  /\ message' = NewMessage
  /\ messageToSend' = [attachments |-> <<>>]
  /\ ret' = [attachments |-> <<>>]

\* one iteration of for(let key in data): reading val.constructor throws
LoopThrow ==
  /\ pc = "loop1" /\ i <= Len(data)
  /\ data[i].v = Undefined
  /\ pc' = "thrown"
  /\ UNCHANGED <<caller, data, type, token, i, message, j, messageToSend, ret, data0>>
  /\ UNCHANGED <<botVars, storeVars, watch>>

\* LoopObject, but moving the nested record out of the input
LoopObject_consume ==
  /\ pc = "loop1" /\ i <= Len(data)
  /\ data[i].v # Undefined
  /\ IsPlainObject(data[i].v)
  /\ message' = ObjSet(message, data[i].k, SubFields(data[i].v))
  /\ data' = [data EXCEPT ![i].v = Obj(<<>>)]
  /\ i' = i + 1
  /\ UNCHANGED <<pc, caller, type, token, j, messageToSend, ret, data0>>
  /\ UNCHANGED <<botVars, storeVars, watch>>

\* one iteration of for(let key in data): the plain-object branch
LoopObject ==
  /\ pc = "loop1" /\ i <= Len(data)
  /\ data[i].v # Undefined
  /\ IsPlainObject(data[i].v)
  /\ message' = ObjSet(message, data[i].k, SubFields(data[i].v))
  /\ i' = i + 1
  /\ UNCHANGED <<pc, caller, data, type, token, j, messageToSend, ret, data0>>
  /\ UNCHANGED <<botVars, storeVars, watch>>

\* one iteration of for(let key in data): the main branch
LoopMain ==
  /\ pc = "loop1" /\ i <= Len(data)
  /\ data[i].v # Undefined
  /\ ~IsPlainObject(data[i].v)
  /\ message' = ObjSet(message, "main",
                   Append(ObjGet(message, "main"),
                          Field(data[i].k, DisplayValue(data[i].v))))
  /\ i' = i + 1
  /\ UNCHANGED <<pc, caller, data, type, token, j, messageToSend, ret, data0>>
  /\ UNCHANGED <<botVars, storeVars, watch>>

\* let messageToSend = {'attachments':[]}
LoopDone ==
  /\ pc = "loop1" /\ i > Len(data)
  /\ pc' = "loop2"
  /\ messageToSend' = [attachments |-> <<>>]
  /\ UNCHANGED <<caller, data, type, token, i, message, j, ret, data0>>
  /\ UNCHANGED <<botVars, storeVars, watch>>

\* one iteration of for(let key in message)
Emit ==
  /\ pc = "loop2" /\ j <= Len(message)
  /\ messageToSend' =
       [attachments |-> Append(messageToSend.attachments,
                          Attachment(message[j].k, type, token, message[j].v))]
  /\ j' = j + 1
  /\ UNCHANGED <<pc, caller, data, type, token, i, message, ret, data0>>
  /\ UNCHANGED <<botVars, storeVars, watch>>

\* return messageToSend
Return ==
  /\ pc = "loop2" /\ j > Len(message)
  /\ pc' = "returned"
  /\ ret' = messageToSend
  /\ UNCHANGED <<caller, data, type, token, i, message, j, messageToSend, data0>>
  /\ UNCHANGED <<botVars, storeVars, watch>>

FormatterStep == LoopThrow \/ LoopObject \/ LoopMain \/ LoopDone \/ Emit \/ Return

\* ---------------------------------------- responseFormatter on one input
Init ==
  /\ pc = "loop1" /\ caller = "direct"
  /\ data \in Records /\ data0 = data
  /\ type \in Types /\ token \in Tokens
  /\ i = 1 /\ j = 1 /\ message = NewMessage
  /\ messageToSend = [attachments |-> <<>>] /\ ret = [attachments |-> <<>>]
  /\ slack = NoClient /\ spawnSeq = 0 /\ cfg = NoConfig /\ trace = <<>>
  /\ delivered = <<>> /\ result = NoResult
  /\ inflight = <<>> /\ paymentGatewayToken = Undefined /\ paymentMethodToken = Undefined
  /\ watch = NoWatch /\ lastCall = NoCall

Next ==
  \/ LoopThrow
  \/ LoopObject
  \/ LoopMain
  \/ LoopDone
  \/ Emit
  \/ Return

Spec == Init /\ [][Next]_vars

\* ------------------------------- repeated responseFormatter calls (direct)
Idle ==
  /\ pc = "idle" /\ caller = "none"
  /\ data = <<>> /\ data0 = <<>> /\ type = "" /\ token = ""
  /\ i = 1 /\ j = 1 /\ message = <<>>
  /\ messageToSend = [attachments |-> <<>>] /\ ret = [attachments |-> <<>>]
  /\ spawnSeq = 0 /\ cfg = NoConfig /\ trace = <<>>
  /\ delivered = <<>> /\ result = NoResult
  /\ inflight = <<>> /\ paymentGatewayToken = Undefined /\ paymentMethodToken = Undefined
  /\ watch = NoWatch /\ lastCall = NoCall

CallFormatter ==
  /\ pc = "idle"
  /\ \E d \in PureRecords, ty \in Types, tk \in PureTokens : Enter(d, ty, tk, "direct")
  /\ UNCHANGED <<botVars, storeVars, watch>>

Outcome == [set |-> TRUE, data |-> data0, type |-> type, token |-> token,
            thrown |-> (pc = "thrown"), ret |-> ret]

\* the direct caller takes the payload or the exception; the frame is gone
Finish ==
  /\ pc \in {"returned", "thrown"} /\ caller = "direct"
  /\ \/ UNCHANGED watch
     \/ ~watch.set /\ watch' = Outcome
  /\ NoFrame
  /\ UNCHANGED <<botVars, storeVars>>

PureInit ==
  /\ Idle
  /\ slack = [id |-> 1, token |-> "xoxb-1", channel |-> "C1"]

PureNext ==
  \/ CallFormatter
  \/ LoopThrow
  \/ LoopObject
  \/ LoopMain
  \/ LoopDone
  \/ Emit
  \/ Return
  \/ Finish

SpecPure == PureInit /\ [][PureNext]_vars

\* ------------------------------------------------------- the Bot instance
\* this.controller.spawn({token: config.token, channel: config.channel_id})
Spawn(config, id) == [id |-> id, token |-> config.token, channel |-> config.channel_id]

\* Bot.prototype.init
BotInit(config) ==
  /\ spawnSeq' = spawnSeq + 1
  /\ slack' = Spawn(config, spawnSeq + 1)

\* Bot.prototype.replyPrivateDelayed, up to the entry of responseFormatter
ReplyCall ==
  /\ pc = "idle" /\ spawnSeq < MaxCalls
  /\ \E c \in Configs, d \in BotRecords, ty \in Types, tk \in Tokens :
       /\ BotInit(c)
       /\ cfg' = c
       /\ Enter(d, ty, tk, "reply")
  /\ trace' = <<"spawn", "format">>
  /\ UNCHANGED <<delivered, result, storeVars, watch>>

\* this.slack.replyPrivateDelayed(data.config, message)
Deliver ==
  /\ pc = "returned" /\ caller = "reply"
  /\ delivered' = Append(delivered, [client |-> slack, config |-> cfg, message |-> ret])
  /\ trace' = Append(trace, "deliver")
  /\ pc' = "replied"
  /\ UNCHANGED <<caller, data, type, token, i, message, j, messageToSend, ret, data0>>
  /\ UNCHANGED <<slack, spawnSeq, cfg, result, storeVars, watch>>

\* the exception of responseFormatter leaves replyPrivateDelayed
ReplyThrow ==
  /\ pc = "thrown" /\ caller = "reply"
  /\ pc' = "replyThrown"
  /\ UNCHANGED <<caller, data, type, token, i, message, j, messageToSend, ret, data0>>
  /\ UNCHANGED <<botVars, storeVars, watch>>

\* Bot.prototype.help
HelpUsage(pretext, command) ==
  Obj(<<Prop("color", Str("#36a64f")),
        Prop("pretext", Str(pretext)),
        Prop("fields", Arr(<<Obj(<<Prop("title", Str("Command")),
                                   Prop("value", Str(command)),
                                   Prop("short", Bool(FALSE))>>)>>))>>)
HelpPayload ==
  Obj(<<Prop("attachments", Arr(<<
     HelpUsage("Transaction details: ", "/spreedly _transaction_ *TOKEN*"),
     HelpUsage("Payment Gateway details: ", "/spreedly _gateway_ *TOKEN*"),
     HelpUsage("Payment Method details: ", "/spreedly _payment-method_ *TOKEN*")>>))>>)

HelpCall ==
  /\ pc = "idle"
  /\ pc' = "helpDone"
  /\ result' = [thrown |-> FALSE, value |-> HelpPayload]
  /\ UNCHANGED <<caller, data, type, token, i, message, j, messageToSend, ret, data0>>
  /\ UNCHANGED <<slack, spawnSeq, cfg, trace, delivered, storeVars, watch>>

\* let help = this.help
ThisHelp == FnNamed("help")
Notice == Obj(<<Prop("pretext", Str("Type not recongnized."))>>)
\* help['attachments'].unshift(notice); return help
Unshift(help, entry) ==
  Obj(ObjSet(help.o, "attachments", Arr(<<entry>> \o PropOf(help, "attachments").a)))

\* Bot.prototype.error
ErrorCall ==
  /\ pc = "idle"
  /\ pc' = "errorDone"
  /\ LET help == ThisHelp
     IN  result' = IF PropOf(help, "attachments").t = "array"
                     THEN [thrown |-> FALSE, value |-> Unshift(help, Notice)]
                     ELSE [thrown |-> TRUE, value |-> Undefined]
  /\ UNCHANGED <<caller, data, type, token, i, message, j, messageToSend, ret, data0>>
  /\ UNCHANGED <<slack, spawnSeq, cfg, trace, delivered, storeVars, watch>>

\* the call on the Bot instance is over
BotExit ==
  /\ pc \in {"replied", "replyThrown", "helpDone", "errorDone"}
  /\ NoFrame
  /\ cfg' = NoConfig /\ trace' = <<>> /\ delivered' = <<>> /\ result' = NoResult
  /\ UNCHANGED <<slack, spawnSeq, storeVars, watch>>

BotSpecInit == Idle /\ slack = NoClient

BotNext ==
  \/ ReplyCall
  \/ LoopThrow
  \/ LoopObject
  \/ LoopMain
  \/ LoopDone
  \/ Emit
  \/ Return
  \/ Deliver
  \/ ReplyThrow
  \/ HelpCall
  \/ ErrorCall
  \/ BotExit

SpecBot == BotSpecInit /\ [][BotNext]_vars

\* -------------------------------------- PaymentMethods.storePaymentMethod
GatewayArgs == { Str("G1"), Str("G2"),
                 Obj(<<Prop("token", Str("G1"))>>), Obj(<<Prop("token", Str("G2"))>>) }
MethodArgs  == { Str("PM1"), Str("PM2"),
                 Obj(<<Prop("token", Str("PM1"))>>), Obj(<<Prop("token", Str("PM2"))>>) }
AdditionalArgs == { Undefined, Null, Obj(<<Prop("k", Str("v"))>>), FnNamed("done") }
CbArgs == { Undefined, FnNamed("cb") }

ShiftsCallback(additionalData, cb) == additionalData.t = "function" /\ ~Truthy(cb)

PostData(paymentMethod, additionalData) ==
  IF Truthy(additionalData)
    THEN <<Prop("paymentMethodToken", paymentMethod),
           Prop("gatewaySpecificFields", additionalData)>>
    ELSE <<Prop("paymentMethodToken", paymentMethod)>>

StoreRequest(paymentGateway, paymentMethod, additionalData, cb) ==
  LET cb1 == IF ShiftsCallback(additionalData, cb) THEN additionalData ELSE cb
      ad1 == IF ShiftsCallback(additionalData, cb) THEN Null ELSE additionalData
      gwToken == OrElse(PropOf(paymentGateway, "token"), paymentGateway)
  IN  [url |-> "/gateways/" \o ToStr(gwToken) \o "/store.xml",
       method |-> "post",
       body |-> Obj(<<Prop("transaction", Obj(PostData(paymentMethod, ad1)))>>),
       cb |-> cb1]

StoreCall ==
  /\ Len(inflight) < MaxInFlight
  /\ \E gw \in GatewayArgs, pm \in MethodArgs, ad \in AdditionalArgs, cb \in CbArgs :
       /\ paymentGatewayToken' = OrElse(PropOf(gw, "token"), gw)
       /\ paymentMethodToken' = OrElse(PropOf(pm, "token"), pm)
       /\ inflight' = Append(inflight, StoreRequest(gw, pm, ad, cb))
       /\ lastCall' = [set |-> TRUE, paymentGateway |-> gw, paymentMethod |-> pm,
                       additionalData |-> ad, cb |-> cb,
                       request |-> StoreRequest(gw, pm, ad, cb)]
  /\ UNCHANGED <<frame, botVars, watch>>

\* the response arrives: .then(util.extractRoot()).nodeify(cb)
Respond ==
  /\ inflight # <<>>
  /\ inflight' = Tail(inflight)
  /\ UNCHANGED <<paymentGatewayToken, paymentMethodToken, lastCall, frame, botVars, watch>>

StoreInit == Idle /\ slack = NoClient

StoreNext ==
  \/ StoreCall
  \/ Respond

SpecStore == StoreInit /\ [][StoreNext]_vars

\* ===================================================================
\* Properties
\* ===================================================================
Groups == ret.attachments
IsObjectValued(p) == p.v.t = "object"
ObjectKeys(rec) == Keys(SelectSeq(rec, IsObjectValued))
OtherKeys(rec)  == Keys(SelectSeq(rec, LAMBDA p : ~IsObjectValued(p)))
Labels(groups)  == [n \in 1..Len(groups) |-> groups[n].pretext]
Titles(fields)  == [n \in 1..Len(fields) |-> fields[n].title]
MainGroups == {g \in 1..Len(Groups) : Groups[g].pretext = MainLabel(type, token)}
LabelledBy(k) == {g \in 1..Len(Groups) : Groups[g].pretext = k}
MainFieldsTitled(k) ==
  UNION { { <<g, f>> : f \in {n \in 1..Len(Groups[g].fields) :
                                 Groups[g].fields[n].title = k} } : g \in MainGroups }
Expected(v) == IF v.t \in {"null", "array"} THEN Str(JSONStringify(v)) ELSE v

\* C1: every top-level key of the record occurs exactly once in the payload,
\* as the title of a field of the main group or as the label of its own
\* group, never both and never dropped.
C1_EveryKeyOnce ==
  pc = "returned" =>
    \A n \in 1..Len(data0) :
      Cardinality(MainFieldsTitled(data0[n].k)) + Cardinality(LabelledBy(data0[n].k)) = 1

\* C2: the main group is first; the groups of object-valued keys follow in
\* the record's key order; the fields of the main group are in the record's
\* key order and the fields of a key's group in the nested record's order.
Precedes(seq, x, y) ==
  \A m, n \in 1..Len(seq) : (seq[m] = x /\ seq[n] = y) => m < n
C2_OrderPreserved ==
  pc = "returned" =>
    /\ MainGroups # {}
    /\ \A g \in MainGroups : g = 1
    /\ \A m, n \in 1..Len(data0) :
         (m < n /\ IsObjectValued(data0[m]) /\ IsObjectValued(data0[n]))
            => Precedes(Labels(Groups), data0[m].k, data0[n].k)
    /\ \A m, n \in 1..Len(data0) :
         (m < n /\ ~IsObjectValued(data0[m]) /\ ~IsObjectValued(data0[n]))
            => \A g \in MainGroups :
                  Precedes(Titles(Groups[g].fields), data0[m].k, data0[n].k)
    /\ \A n \in 1..Len(data0) : \A g \in LabelledBy(data0[n].k) :
         IsObjectValued(data0[n]) => Titles(Groups[g].fields) = Keys(data0[n].v.o)

\* C3: the main group is labelled with the response context and every
\* object-valued key k yields a group labelled k.
C3_Labels ==
  pc = "returned" =>
    /\ MainGroups # {}
    /\ \A n \in 1..Len(data0) :
         IsObjectValued(data0[n]) => LabelledBy(data0[n].k) # {}

\* C4: an iteration over a key whose value is not a plain object appends
\* exactly one field {title: key, value: JSON text of null/array or the
\* scalar itself, short: true} to the main group; an iteration over an
\* object-valued key gives that key the fields {title: subKey, value: nested
\* value as-is, short: true} in the nested record's order.
C4_FieldPerKey ==
  [][ (pc = "loop1" /\ i <= Len(data)) =>
        IF IsObjectValued(data[i])
          THEN /\ HasKey(message', data[i].k)
               /\ ObjGet(message', data[i].k) =
                    [n \in 1..Len(data[i].v.o) |->
                       [title |-> data[i].v.o[n].k, value |-> data[i].v.o[n].v,
                        short |-> TRUE]]
          ELSE /\ HasKey(message', "main")
               /\ ObjGet(message', "main") =
                    Append(ObjGet(message, "main"),
                           [title |-> data[i].k, value |-> Expected(data[i].v),
                            short |-> TRUE])
    ]_vars

\* C5: the payload has 1 + (number of object-valued keys) groups.
C5_GroupCount ==
  pc = "returned" =>
    Len(Groups) = 1 + Cardinality({n \in 1..Len(data0) : IsObjectValued(data0[n])})

\* C6: responseFormatter never raises, whatever the shape of each value; a
\* value of unrecognized shape becomes a field of the main group.
C6_Total ==
  /\ pc # "thrown"
  /\ pc = "returned" =>
       \A n \in 1..Len(data0) :
         data0[n].v.t \in {"undefined", "function", "date"}
            => MainFieldsTitled(data0[n].k) # {}

\* C7: error() returns, without raising, the help payload with the
\* "not recognized" group prepended: four groups.
C7_ErrorPayload ==
  pc = "errorDone" =>
    /\ ~result.thrown
    /\ result.value =
         Obj(<<Prop("attachments",
                    Arr(<<Notice>> \o PropOf(HelpPayload, "attachments").a))>>)

\* C8: a call with the input of an earlier call has the outcome of that
\* call, whatever calls ran in between; the input record is the same
\* throughout the call; no step of the call changes the Bot instance.
C8_SameOutcome ==
  (pc \in {"returned", "thrown"} /\ watch.set /\ watch.data = data0
      /\ watch.type = type /\ watch.token = token)
    => /\ watch.thrown = (pc = "thrown")
       /\ pc = "returned" => ret = watch.ret
C8_InputKept == pc \in {"loop1", "loop2", "returned", "thrown"} => data = data0
C8_InstanceKept == pc \in {"loop1", "loop2"} => UNCHANGED slack
C8_Pure ==
  /\ [](C8_SameOutcome /\ C8_InputKept)
  /\ [][C8_InstanceKept]_vars
C8_Witness ==
  /\ pc = "returned" /\ watch.set /\ watch.data = data0
  /\ watch.type = type /\ watch.token = token
  /\ ret = watch.ret
  /\ Len(data0) = 2
  /\ \E n \in 1..Len(data0) : IsObjectValued(data0[n])

\* C9: the request is a POST to /gateways/<gateway token>/store.xml whose
\* body carries the payment method's token, for elements and bare tokens
\* alike, with gatewaySpecificFields only when additionalData is given; a
\* function in the additionalData position with no cb is the callback.
TokenOf(arg) == IF arg.t = "object" THEN PropOf(arg, "token") ELSE arg
C9_StoreRequest ==
  lastCall.set =>
    LET shifted == lastCall.additionalData.t = "function" /\ lastCall.cb.t # "function"
        given == IF shifted THEN Null ELSE lastCall.additionalData
        tr == PropOf(lastCall.request.body, "transaction")
    IN  /\ lastCall.request.method = "post"
        /\ lastCall.request.url =
             "/gateways/" \o TokenOf(lastCall.paymentGateway).s \o "/store.xml"
        /\ PropOf(tr, "paymentMethodToken") = TokenOf(lastCall.paymentMethod)
        /\ HasKey(tr.o, "gatewaySpecificFields") <=> given.t \notin {"null", "undefined"}
        /\ lastCall.request.cb = IF shifted THEN lastCall.additionalData ELSE lastCall.cb

\* C10: a replyPrivateDelayed call spawns once, formats once and delivers
\* once, in this order; the delivery goes through the client spawned by
\* this call and carries the payload formatted from this call's record.
C10_OneShot ==
  pc \in {"replied", "replyThrown"} =>
    /\ trace = <<"spawn", "format", "deliver">>
    /\ Len(delivered) = 1
    /\ delivered[1].client = [id |-> spawnSeq, token |-> cfg.token,
                              channel |-> cfg.channel_id]
    /\ delivered[1].message = ret
====
